---- MODULE Spec2Model ----
(***************************************************************************)
(* Model of valuelink/src/hooks.ts: the React hooks of NestedLink.         *)
(*                                                                         *)
(* One component instance is modelled.  It uses exactly one of the hooks   *)
(* (variable hook); the host runtime (React) is modelled by a state cell,  *)
(* a queue of pending state updates that a render applies in order, and    *)
(* passive effects that run after the render that scheduled them.          *)
(***************************************************************************)
EXTENDS Integers, Sequences, FiniteSets, TLC

VARIABLES
    hook,           \* which hook of hooks.ts the component calls
    phase,          \* "mounted" | "unmounted"
    isMounted,      \* isMounted.current, the ref of useIsMountedRef
    cleanup,        \* TRUE once the effect of useIsMountedRef registered its cleanup
    state,          \* the useState cell behind the link; it changes only in a
                    \* render, so it is also link.value of the last render
    queue,          \* state updates handed to the host setter, not yet applied
    effectPending,  \* the last render scheduled the hook's effect, not yet run
    condition,      \* useIO: the dependency key of the last render
    ops,            \* useIO: status of every call of fun()
    isReady,        \* useIO: the boolean returned by the last render
    source,         \* use(Safe)BoundLink: the source argument of the last render
    batch,          \* number of queued updates the last render applied, and
    last,           \* the last of them (NoUpdate if none); both are history
                    \* of the last render, kept until the next update is queued
                    \* (on either link, for the twin)
    forKey,         \* useIO: the keys an operation was dispatched for
    lateCall,       \* a function handed to set was called after teardown
    plainState,     \* the cell of the useLink twin (hook useLink+useSafeLink)
    plainQueue,     \* the updates waiting for the cell of the twin
    store,          \* useLocalStorage: what localStorage holds under the key
    raised,         \* useLocalStorage: an effect of the hook threw
    instance,       \* useLocalStorage: 1 is the first component, 2 the one mounted after it
    held            \* useLocalStorage: the values the links of component 1 held at teardown

vars == << hook, phase, isMounted, cleanup, state, queue, effectPending,
           condition, ops, isReady, source, batch, last, forKey, lateCall,
           plainState, plainQueue, store, raised, instance, held >>

(***************************************************************************)
(* Bounds                                                                  *)
(***************************************************************************)
MaxOps == 3         \* calls of fun() by one useIO component
MaxKey == 1         \* dependency keys are 0..MaxKey
MaxQueue == 2       \* caller-made set/update calls waiting in the queue
MaxVal == 2         \* values are 0..MaxVal

Keys == 0 .. MaxKey
Vals == 0 .. MaxVal
OpIds == 1 .. MaxOps

(***************************************************************************)
(* JavaScript values                                                       *)
(***************************************************************************)
Null == [t |-> "null"]
Num(n) == [t |-> "number", n |-> n]
Obj(c) == [t |-> "object", c |-> c]
Undefined == [t |-> "undefined"]
NaN == [t |-> "nan"]

\* ToBoolean of a value: null and 0 are falsy
Truthy(x) ==
    CASE x.t = "null" -> FALSE
      [] x.t = "number" -> x.n # 0
      [] OTHER -> TRUE

\* ToNumber of a value, as the operators + and - apply it (null is 0)
ToNumber(x) == IF x.t = "number" THEN x.n ELSE 0

(***************************************************************************)
(* useIO: the two functional updates of the counter                        *)
(***************************************************************************)
IncFlag(x) == Num(1)

\* x => ( x || 0 ) + 1
Inc(x) == Num(ToNumber(IF Truthy(x) THEN x ELSE Num(0)) + 1)

DecSkip(x) == x

DecReset(x) == IF ToNumber(x) = 1 THEN Null ELSE Num(ToNumber(x) - 1)

\* x => x - 1
Dec(x) == Num(ToNumber(x) - 1)

ReadinessNoNull(v) == ~Truthy(v)

\* $isReady.value === null ? false : !$isReady.value
Readiness(v) == IF v = Null THEN FALSE ELSE ~Truthy(v)

(***************************************************************************)
(* UseStateLink.update.  An update function is described by what it does   *)
(* to its draft (mutates: it assigns the successor content to the draft)   *)
(* and by what it returns: nothing, the draft, or a new object.            *)
(***************************************************************************)
Succ(c) == (c + 1) % (MaxVal + 1)
Fresh(c) == (c + 2) % (MaxVal + 1)

UpdateFuns == [mutates : BOOLEAN, ret : {"undefined", "draft", "fresh"}]

\* helpers( x ).clone( x ): the heap gets a new object, a copy of x
Clone(heap) == [r \in {"x", "draft"} |-> heap["x"]]

\* fun( value, event ): the heap after the call
FunHeap(fn, heap) ==
    LET mutated == IF fn.mutates
                   THEN [heap EXCEPT !["draft"] = Obj(Succ(heap["draft"].c))]
                   ELSE heap
    IN  [r \in {"x", "draft", "fresh"} |->
            IF r = "fresh" THEN Obj(Fresh(heap["draft"].c)) ELSE mutated[r]]

\* fun( value, event ): the reference it returns
FunResult(fn) == fn.ret

CommitDraftAlways(result) == "draft"

\* result === void 0 ? x : result
Commit(result) == IF result = "undefined" THEN "x" ELSE result

\* update computing from this.value, the value of the last render
UpdateFnOnSnapshot(fn, x) ==
    LET heap == FunHeap(fn, Clone([r \in {"x"} |-> state]))
    IN  heap[Commit(FunResult(fn))]

\* x => { const value = clone( x ), result = fun( value, event ); return ... }
UpdateFn(fn, x) ==
    LET heap == FunHeap(fn, Clone([r \in {"x"} |-> x]))
    IN  heap[Commit(FunResult(fn))]

\* the functions callers hand to set: they return a new object
SetFuns == {"succ", "twice"}
SetFn(f, x) ==
    IF f = "succ" THEN Obj(Succ(x.c)) ELSE Obj((2 * x.c) % (MaxVal + 1))

(***************************************************************************)
(* The host: useState.  A state update is a record; kind "value" carries   *)
(* the value of set( v ), the other kinds name the function handed to set. *)
(***************************************************************************)
Update(kind, v, by) == [kind |-> kind, v |-> v, by |-> by]

NoUpdate == Update("none", Null, "none")

\* the host calls a functional update with the latest value of the cell
ApplyUpdate(u, x) ==
    CASE u.kind = "value" -> u.v
      [] u.kind = "inc" -> Inc(x)
      [] u.kind = "dec" -> Dec(x)
      [] u.kind = "fn" -> SetFn(u.v.name, x)
      [] u.kind = "update" -> UpdateFn(u.v, x)
      [] u.kind = "link" -> [x EXCEPT ![u.v.name] = u.v.value]
      [] OTHER -> x

RECURSIVE ApplyQueue(_, _)
ApplyQueue(q, x) ==
    IF q = << >> THEN x ELSE ApplyQueue(Tail(q), ApplyUpdate(Head(q), x))

\* a render: the host applies the queued updates in the order they were
\* queued; the link the hook builds has the resulting value of the cell as
\* its value
HostRender ==
    /\ state' = ApplyQueue(queue, state)
    /\ queue' = << >>
    /\ batch' = Len(queue)
    /\ last' = IF queue = << >> THEN NoUpdate ELSE queue[Len(queue)]
    /\ plainState' = ApplyQueue(plainQueue, plainState)
    /\ plainQueue' = << >>

\* the setter returned by useState: queues the update on the component
HostSet(q, u) == Append(q, u)

\* the host setter computes the new state at once, calling the function it
\* was handed, when the component has no update waiting
Eager(q, u) == q = << >> /\ u.kind \in {"inc", "dec", "fn", "update"}

\* the queue after a call of set is q
Enqueue(q) ==
    /\ queue' = q
    /\ batch' = IF q = queue /\ hook # "useLink+useSafeLink" THEN batch ELSE 0
    /\ last' = IF q = queue /\ hook # "useLink+useSafeLink" THEN last
                                                           ELSE NoUpdate
    /\ lateCall' = ( \/ lateCall
                     \/ /\ q # queue
                        /\ phase = "unmounted"
                        /\ Eager(queue, q[Len(q)]) )

UnguardedSet(q, u) == HostSet(q, u)

\* the component calls useSafeLink and useLink with the same initial value
\* and its callers make every call on both links
Twin == hook = "useLink+useSafeLink"

SafeSetInverted(q, u) == IF isMounted THEN q ELSE HostSet(q, u)

\* x => isMounted.current && set( x )
SafeSet(q, u) == IF isMounted THEN HostSet(q, u) ELSE q

\* the same call on the link of useLink: set is the host setter
PlainSet(u) ==
    /\ Twin => Len(plainQueue) < MaxQueue
    /\ plainQueue' = IF Twin THEN HostSet(plainQueue, u) ELSE plainQueue

\* the hooks whose link (state, queue) is guarded
Safe == hook \in {"useIO", "useSafeLink", "useSafeBoundLink"} \/ Twin

\* link.set of the link the hook built: guarded for the safe hooks
LinkSet(q, u) == IF Safe THEN SafeSet(q, u) ELSE HostSet(q, u)

DepsNeverChange(prev, next) == FALSE

DepsAlwaysChange(prev, next) == TRUE

\* the host runs an effect again when its dependency list changed
DepsChanged(prev, next) == prev # next

(***************************************************************************)
(* useIO                                                                   *)
(***************************************************************************)
Dispatched == Cardinality({i \in OpIds : ops[i] # "idle"})
Settled == Cardinality({i \in OpIds : ops[i] \in {"resolved", "rejected"}})
NextOp == Dispatched + 1

\* the effect of useIO (with the effect of useIsMountedRef on mount):
\* queue the increment, call fun(), attach the decrement with finally.
\* fun either returns a promise or throws before it returns one; the throw
\* leaves the effect at line 132, before finally is reached, and the host
\* either keeps the component (an error boundary rendering the same
\* children) or tears it down (Unmount).
useIO_effect(returns) ==
    /\ hook = "useIO"
    /\ phase = "mounted"
    /\ effectPending
    /\ NextOp \in OpIds
    /\ cleanup' = TRUE
    /\ Enqueue(SafeSet(queue, Update("inc", Null, "io")))
    /\ ops' = [ops EXCEPT ![NextOp] = IF returns THEN "pending" ELSE "threw"]
    /\ forKey' = forKey \cup {condition}
    /\ effectPending' = FALSE
    /\ UNCHANGED << hook, phase, isMounted, state, condition, isReady,
                    source, plainState, plainQueue, store, raised, instance,
                    held >>

\* the promise of call i settles: the finally callback queues the decrement
useIO_finally(i, outcome) ==
    /\ hook = "useIO"
    /\ ops[i] = "pending"
    /\ ops' = [ops EXCEPT ![i] = outcome]
    /\ Enqueue(SafeSet(queue, Update("dec", Null, "io")))
    /\ UNCHANGED << hook, phase, isMounted, cleanup, state, effectPending,
                    condition, isReady, source, forKey, plainState,
                    plainQueue, store, raised, instance, held >>

\* a render of the component: the host applies the queued updates, useIO
\* reads the counter and schedules its effect when the key changed
useIO_render(key) ==
    /\ hook = "useIO"
    /\ phase = "mounted"
    /\ ~effectPending
    /\ DepsChanged(condition, key) => NextOp \in OpIds
    /\ HostRender
    /\ isReady' = Readiness(state')
    /\ condition' = key
    /\ effectPending' = DepsChanged(condition, key)
    /\ UNCHANGED << hook, phase, isMounted, cleanup, ops, source, forKey,
                    lateCall, store, raised, instance, held >>

(***************************************************************************)
(* useLocalStorage.  The component holds a collection of links, one per    *)
(* name; the cells of the links are kept in state as one record, a set on  *)
(* a link is an update of kind "link".  A string in the store is absent,   *)
(* empty, text JSON.parse rejects, or the text of an object, kept as the   *)
(* members the text spells out.                                            *)
(***************************************************************************)
Names == {"a", "b"}
NameOrder == << "a", "b" >>

\* the collection a component constructs
FreshLinks == [n \in Names |-> Num(0)]

\* the values callers write to a link
WriteVals == {Num(1), Undefined, NaN}

Absent == [t |-> "absent"]
EmptyText == [t |-> "text", s |-> "empty"]
Garbage == [t |-> "text", s |-> "garbage"]
Text(doc) == [t |-> "text", s |-> "json", doc |-> doc]

JNull == [j |-> "null"]
JNum(n) == [j |-> "number", n |-> n]

\* what the store holds when the first component mounts
InitialStores ==
    {Absent, EmptyText, Garbage, Text([n \in {"a"} |-> JNum(1)])}

JSONMemberAsNull(v) == JNull

\* JSON.stringify of a member value: NaN and null are written as null
JSONMember(v) == IF v.t = "number" THEN JNum(v.n) ELSE JNull

\* JSON.stringify( dataToSave ): members whose value is undefined are left out
JSONStringify(o) ==
    Text([n \in {m \in DOMAIN o : o[m] # Undefined} |-> JSONMember(o[n])])

\* localStorage.setItem( key, text )
SetItem(text) == text

\* localStorage.getItem( key ) || '{}': null and the empty string are falsy
GetItemOrEmpty(s) ==
    IF s = Absent \/ s = EmptyText THEN Text([n \in {} |-> JNull]) ELSE s

\* JSON.parse throws a SyntaxError on text that is not JSON
ParseThrows(text) == text.s # "json"

JSONValue(j) == IF j.j = "number" THEN Num(j.n) ELSE Null

\* JSON.parse( text ) of the text of an object
JSONParse(text) == [n \in DOMAIN text.doc |-> JSONValue(text.doc[n])]

\* Link.getValues( links ): the value of every link, by name
GetValues(x) == [n \in Names |-> x[n]]

\* Link.setValues( links, data ): set on every link the data has a member for
SetValues(q, data) ==
    LET present == SelectSeq(NameOrder, LAMBDA n : n \in DOMAIN data)
    IN  q \o [i \in 1 .. Len(present) |->
                 Update("link", [name |-> present[i],
                                 value |-> data[present[i]]], "load")]

\* the effect of useLocalStorage, run once after the first render: a throw
\* of JSON.parse leaves the effect before setValues and before the cleanup
\* is returned
useLocalStorage_effect ==
    /\ hook = "useLocalStorage"
    /\ phase = "mounted"
    /\ effectPending
    /\ effectPending' = FALSE
    /\ IF ParseThrows(GetItemOrEmpty(store))
       THEN /\ raised' = TRUE
            /\ UNCHANGED << queue, cleanup, batch, last, lateCall >>
       ELSE /\ Enqueue(SetValues(queue, JSONParse(GetItemOrEmpty(store))))
            /\ cleanup' = TRUE
            /\ raised' = raised
    /\ UNCHANGED << hook, phase, isMounted, state, condition, ops, isReady,
                    source, forKey, plainState, plainQueue, store, instance,
                    held >>

\* links.name.set( v ), by a caller of the first component
call_link_set(n, v) ==
    /\ hook = "useLocalStorage"
    /\ phase = "mounted"
    /\ instance = 1
    /\ Len(queue) < MaxQueue
    /\ Enqueue(HostSet(queue, Update("link", [name |-> n, value |-> v],
                                     "user")))
    /\ UNCHANGED << hook, phase, isMounted, cleanup, state, effectPending,
                    condition, ops, isReady, source, forKey, plainState,
                    plainQueue, store, raised, instance, held >>

useLocalStorage_render ==
    /\ hook = "useLocalStorage"
    /\ phase = "mounted"
    /\ ~effectPending
    /\ HostRender
    /\ UNCHANGED << hook, phase, isMounted, cleanup, effectPending,
                    condition, ops, isReady, source, forKey, lateCall,
                    store, raised, instance, held >>

\* after the teardown of the first component a second one is constructed
\* with a fresh collection of links of the same names and mounts
Remount ==
    /\ hook = "useLocalStorage"
    /\ phase = "unmounted"
    /\ instance = 1
    /\ instance' = 2
    /\ held' = GetValues(state)
    /\ phase' = "mounted"
    /\ state' = FreshLinks
    /\ queue' = << >>
    /\ cleanup' = FALSE
    /\ effectPending' = TRUE
    /\ batch' = 0
    /\ last' = NoUpdate
    /\ UNCHANGED << hook, isMounted, condition, ops, isReady, source,
                    forKey, lateCall, plainState, plainQueue, store,
                    raised >>

(***************************************************************************)
(* useIsMountedRef: the cleanup of its effect runs at teardown             *)
(***************************************************************************)
StaysMounted(c) == TRUE

StorageCleanup == hook = "useLocalStorage" /\ cleanup

\* () => isMounted.current = false
MountedAfterCleanup(c) == FALSE

Unmount ==
    /\ phase = "mounted"
    /\ ~effectPending
    /\ phase' = "unmounted"
    /\ isMounted' = IF cleanup /\ hook # "useLocalStorage"
                    THEN MountedAfterCleanup(isMounted)
                    ELSE isMounted
    /\ store' = IF StorageCleanup THEN SetItem(JSONStringify(GetValues(state)))
                                  ELSE store
    /\ UNCHANGED << hook, cleanup, state, queue, effectPending, condition,
                    ops, isReady, source, batch, last, forKey, lateCall,
                    plainState, plainQueue, raised, instance, held >>

(***************************************************************************)
(* useLink and useSafeLink: a component that holds an object in the link   *)
(* and whose callers (event handlers, completed I/O) call set and update   *)
(* at any time, also after teardown                                        *)
(***************************************************************************)
IsLink == hook \in {"useLink", "useSafeLink"} \/ Twin
IsBound == hook \in {"useBoundLink", "useSafeBoundLink"}

\* the value a caller writes: an object for use(Safe)Link, a primitive for
\* the bound links
Val(v) == IF IsLink THEN Obj(v) ELSE Num(v)

\* link.set( v )
call_set_value(v) ==
    /\ IsLink \/ IsBound
    /\ Len(queue) < MaxQueue
    /\ Enqueue(LinkSet(queue, Update("value", Val(v), "user")))
    /\ PlainSet(Update("value", Val(v), "user"))
    /\ UNCHANGED << hook, phase, isMounted, cleanup, state, effectPending,
                    condition, ops, isReady, source, forKey, plainState,
                    store, raised, instance, held >>

\* link.set( x => f( x ) )
call_set_fn(f) ==
    /\ IsLink
    /\ Len(queue) < MaxQueue
    /\ Enqueue(LinkSet(queue, Update("fn", [name |-> f], "user")))
    /\ PlainSet(Update("fn", [name |-> f], "user"))
    /\ UNCHANGED << hook, phase, isMounted, cleanup, state, effectPending,
                    condition, ops, isReady, source, forKey, plainState,
                    store, raised, instance, held >>

\* link.update( fun ): this.set( x => ... )
call_update(fn) ==
    /\ IsLink
    /\ Len(queue) < MaxQueue
    /\ Enqueue(LinkSet(queue, Update("update", fn, "user")))
    /\ PlainSet(Update("update", fn, "user"))
    /\ UNCHANGED << hook, phase, isMounted, cleanup, state, effectPending,
                    condition, ops, isReady, source, forKey, plainState,
                    store, raised, instance, held >>

\* the effect of useIsMountedRef, run once after the first render
useSafeLink_effect ==
    /\ hook = "useSafeLink" \/ Twin
    /\ phase = "mounted"
    /\ effectPending
    /\ cleanup' = TRUE
    /\ effectPending' = FALSE
    /\ UNCHANGED << hook, phase, isMounted, state, queue, condition, ops,
                    isReady, source, batch, last, forKey, lateCall,
                    plainState, plainQueue, store, raised, instance, held >>

useLink_render ==
    /\ IsLink
    /\ phase = "mounted"
    /\ ~effectPending
    /\ HostRender
    /\ UNCHANGED << hook, phase, isMounted, cleanup, effectPending,
                    condition, ops, isReady, source, forKey, lateCall, store,
                    raised, instance, held >>

(***************************************************************************)
(* useBoundLink and useSafeBoundLink.  A source is a bare value or a link; *)
(* a link is an object with an identity (id) of its own.                   *)
(***************************************************************************)
Sources ==
    [isLink : {FALSE}, id : {0}, value : {Num(v) : v \in Vals}]
        \cup [isLink : {TRUE}, id : {1, 2}, value : {Num(v) : v \in Vals}]

\* source instanceof Link ? source.value : source
Extract(s) == s.value

DepsOnSource(s) == s

\* the dependency list of the synchronizing effect: [ value ]
Deps(s) == Extract(s)

\* useEffect(() => link.set( value ), [ value ]), with the effect of
\* useIsMountedRef after the first render of useSafeBoundLink
useBoundLink_effect ==
    /\ IsBound
    /\ phase = "mounted"
    /\ effectPending
    /\ cleanup' = Safe
    /\ Enqueue(LinkSet(queue, Update("value", Extract(source), "sync")))
    /\ effectPending' = FALSE
    /\ UNCHANGED << hook, phase, isMounted, state, condition, ops, isReady,
                    source, forKey, plainState, plainQueue, store, raised,
                    instance, held >>

\* a render of the component with source s
useBoundLink_render(s) ==
    /\ IsBound
    /\ phase = "mounted"
    /\ ~effectPending
    /\ HostRender
    /\ source' = s
    /\ effectPending' = DepsChanged(Deps(source), Deps(s))
    /\ UNCHANGED << hook, phase, isMounted, cleanup, condition, ops, isReady,
                    forKey, lateCall, store, raised, instance, held >>

(***************************************************************************)
(* Specification.  The initial state is the one after the first render.    *)
(***************************************************************************)
InitIO ==
    /\ hook = "useIO"
    /\ state = Null
    /\ isReady = Readiness(state)
    /\ source = Null
    /\ effectPending = TRUE

InitLink ==
    /\ hook \in {"useLink", "useSafeLink", "useLink+useSafeLink"}
    /\ state \in {Obj(v) : v \in Vals}
    /\ isReady = FALSE
    /\ source = Null
    /\ effectPending = (hook # "useLink")

InitStorage ==
    /\ hook = "useLocalStorage"
    /\ store \in InitialStores
    /\ state = FreshLinks
    /\ isReady = FALSE
    /\ source = Null
    /\ effectPending = TRUE

InitBound ==
    /\ hook \in {"useBoundLink", "useSafeBoundLink"}
    /\ source \in Sources
    /\ state = Extract(source)
    /\ isReady = FALSE
    /\ effectPending = TRUE

Init ==
    /\ phase = "mounted"
    /\ isMounted = TRUE
    /\ cleanup = FALSE
    /\ queue = << >>
    /\ condition = 0
    /\ ops = [i \in OpIds |-> "idle"]
    /\ forKey = {}
    /\ lateCall = FALSE
    /\ batch = 0
    /\ last = NoUpdate
    /\ InitIO \/ InitLink \/ InitBound \/ InitStorage
    /\ hook # "useLocalStorage" => store = Absent
    /\ raised = FALSE
    /\ instance = 1
    /\ held = FreshLinks
    /\ plainState = IF Twin THEN state ELSE Null
    /\ plainQueue = << >>

Next ==
    \/ \E r \in BOOLEAN : useIO_effect(r)
    \/ \E i \in OpIds, o \in {"resolved", "rejected"} : useIO_finally(i, o)
    \/ \E k \in Keys : useIO_render(k)
    \/ \E v \in Vals : call_set_value(v)
    \/ \E f \in SetFuns : call_set_fn(f)
    \/ \E fn \in UpdateFuns : call_update(fn)
    \/ useSafeLink_effect
    \/ useLink_render
    \/ useBoundLink_effect
    \/ \E s \in Sources : useBoundLink_render(s)
    \/ useLocalStorage_effect
    \/ \E n \in Names, v \in WriteVals : call_link_set(n, v)
    \/ useLocalStorage_render
    \/ Remount
    \/ Unmount

Spec == Init /\ [][Next]_vars

\* the host's scheduling: a queued update is followed by a render, a render
\* that scheduled an effect is followed by the effect, and a pending promise
\* is settled by its producer
FairSpec ==
    /\ Init
    /\ [][Next]_vars
    /\ WF_vars(\E k \in Keys : useIO_render(k))
    /\ WF_vars(\E r \in BOOLEAN : useIO_effect(r))
    /\ WF_vars(\E i \in OpIds, o \in {"resolved", "rejected"} :
                  useIO_finally(i, o))

(***************************************************************************)
(* Properties                                                              *)
(***************************************************************************)
Outstanding == Cardinality({i \in OpIds : ops[i] \in {"pending", "threw"}})
IORender == \E k \in Keys : useIO_render(k)
BoundRender == \E s \in Sources : useBoundLink_render(s)
LinkRender == useLink_render
TailUpdate(q) == q[Len(q)]
\* the value of the cell the last queued update is applied to
Latest == ApplyQueue(SubSeq(queue, 1, Len(queue) - 1), state)

\* C1: every render of useIO made while a dispatched operation has not
\* settled returns false, whatever the number of operations and the order
\* in which they settle; a render made after at least one dispatch, when
\* all dispatched operations have settled, returns true.
C1_ReadinessUnderOverlap ==
    [][ IORender =>
            /\ Outstanding > 0 => isReady' = FALSE
            /\ isReady' = TRUE => (Dispatched > 0 /\ Outstanding = 0)
            /\ (Dispatched > 0 /\ Outstanding = 0) => isReady' = TRUE ]_vars

\* the second of two overlapping operations settled first and a render
\* applied its decrement while the first is still pending
C1_Witness ==
    /\ hook = "useIO"
    /\ phase = "mounted"
    /\ ops[1] = "pending"
    /\ ops[2] \in {"resolved", "rejected"}
    /\ queue = << >>
    /\ last.kind = "dec"
    /\ isReady = FALSE

\* C2: while the component is mounted and the host has applied every queued
\* update, the counter (null read as 0, as line 130 reads it, and null only
\* before the first dispatch) is the number of operations dispatched minus
\* the number of operations settled.
C2_NoLostUpdates ==
    (hook = "useIO" /\ phase = "mounted" /\ queue = << >>) =>
        /\ ToNumber(state) = Dispatched - Settled
        /\ state = Null <=> Dispatched = 0

\* one render applied several queued increments and decrements at once
C2_Witness ==
    /\ hook = "useIO"
    /\ phase = "mounted"
    /\ queue = << >>
    /\ batch >= 3
    /\ Dispatched >= 2
    /\ Settled >= 1
    /\ state = Num(Dispatched - Settled)

\* C3: every dispatched operation, whether fun succeeds, rejects or throws,
\* decrements the counter once: when the component is mounted, every
\* dispatched operation has finished (resolved, rejected or thrown) and the
\* host has applied the queue, the counter is 0.
C3_FailureAccounting ==
    ( /\ hook = "useIO"
      /\ phase = "mounted"
      /\ queue = << >>
      /\ Dispatched > 0
      /\ \A i \in OpIds : ops[i] # "pending" ) => state = Num(0)

\* C4: after teardown no call of set or update on a link of useSafeLink
\* (the counter of useIO and the link of useSafeBoundLink included) changes
\* the state cell (the link's value) or hands an update to the host.
C4_StaleWritesAbsorbed ==
    [][ (Safe /\ phase = "unmounted") =>
            (state' = state /\ queue' = queue) ]_vars

\* an operation of useIO settled after teardown: its decrement is in no queue
C4_Witness ==
    /\ hook = "useIO"
    /\ phase = "unmounted"
    /\ ~isMounted
    /\ Settled > 0
    /\ ToNumber(ApplyQueue(queue, state)) > Dispatched - Settled

\* C5: update( fun ) with fun mutating its draft and returning undefined
\* commits the mutated draft: the render that applies it as the last queued
\* update leaves the cell with the mutated copy of the latest value.
C5_UpdateCommitsMutatedDraft ==
    [][ ( /\ LinkRender
          /\ queue # << >>
          /\ TailUpdate(queue).kind = "update"
          /\ TailUpdate(queue).v.mutates
          /\ TailUpdate(queue).v.ret = "undefined" )
            => state' = Obj(Succ(Latest.c)) ]_vars

\* C6: update( fun ) with fun returning a result other than undefined
\* commits that result, computed from a clone of the latest value of the
\* cell: the new object fun built from it, or the draft as fun left it.
C6_UpdateCommitsResult ==
    [][ ( /\ LinkRender
          /\ queue # << >>
          /\ TailUpdate(queue).kind = "update"
          /\ TailUpdate(queue).v.ret # "undefined" )
            => state' = IF TailUpdate(queue).v.ret = "fresh"
                            THEN Obj(Fresh(Latest.c))
                        ELSE IF TailUpdate(queue).v.mutates
                            THEN Obj(Succ(Latest.c))
                        ELSE Latest ]_vars

\* a render applied an update queued behind another write; fun returned a
\* new object
C6_Witness ==
    /\ IsLink
    /\ phase = "mounted"
    /\ batch >= 2
    /\ queue = << >>
    /\ last.kind = "update"
    /\ last.v.ret = "fresh"

\* C7: when a render of a bound link sees a source value other than the one
\* of the render before, its synchronizing effect is scheduled; the effect
\* writes that source value; and the render that applies the write as the
\* last queued one leaves the link holding it, whatever the caller had set.
C7_SourceWins ==
    [][ (IsBound /\ phase = "mounted") =>
            /\ (BoundRender /\ Extract(source') # Extract(source))
                    => effectPending'
            /\ useBoundLink_effect
                    => /\ queue' # << >>
                       /\ TailUpdate(queue').by = "sync"
                       /\ TailUpdate(queue').v = Extract(source)
            /\ (BoundRender /\ queue # << >> /\ TailUpdate(queue).by = "sync")
                    => state' = Extract(source) ]_vars

\* a render applied a caller's write and then the synchronizing write
C7_Witness ==
    /\ IsBound
    /\ phase = "mounted"
    /\ batch >= 2
    /\ last.by = "sync"
    /\ state = Extract(source)
    /\ ~effectPending

\* C8: a render of a bound link whose extracted source value is the one of
\* the render before (the source may be another object) schedules no
\* synchronization, and when no synchronizing write is waiting it leaves
\* the link with what the caller wrote last, or unchanged.
C8_LocalDivergence ==
    [][ (BoundRender /\ Extract(source') = Extract(source)) =>
            /\ ~effectPending'
            /\ (\A j \in 1 .. Len(queue) : queue[j].by = "user") =>
                    state' = IF queue = << >> THEN state
                             ELSE TailUpdate(queue).v ]_vars

\* the caller's value survived a render in which the source, a link, kept
\* its value
C8_Witness ==
    /\ IsBound
    /\ phase = "mounted"
    /\ source.isLink
    /\ queue = << >>
    /\ ~effectPending
    /\ last.by = "user"
    /\ state # Extract(source)

\* C9: the flag of useIsMountedRef is true while the component is mounted,
\* false after teardown, and the only step that changes it is the teardown,
\* from true to false.
C9_MountFlagMonotonic ==
    /\ [](Safe => (isMounted <=> phase = "mounted"))
    /\ [][ isMounted' # isMounted =>
              /\ isMounted /\ ~isMounted'
              /\ phase = "mounted" /\ phase' = "unmounted" ]_vars

C9_Witness ==
    /\ Safe
    /\ phase = "unmounted"
    /\ ~isMounted
    /\ cleanup

C12_ReadinessPerKey ==
    (hook = "useIO" /\ condition \notin forKey) => isReady = FALSE

\* C15: once the counter of useIO is not null it is never null again, and
\* whenever it changes it changes by the increments (+1 each) and the
\* decrements (-1 each) that were queued.
Count(kind) == Cardinality({j \in 1 .. Len(queue) : queue[j].kind = kind})

C15_CounterNeverNullAgain ==
    [][ hook = "useIO" =>
            /\ state # Null => state' # Null
            /\ state' # state =>
                    /\ state' # Null
                    /\ ToNumber(state') - ToNumber(state)
                            = Count("inc") - Count("dec") ]_vars

\* the counter went from null to 1 and back to 0, where it is not null
C15_Witness ==
    /\ hook = "useIO"
    /\ state = Num(0)
    /\ Settled >= 1
    /\ last.kind = "dec"

\* C17: useIO calls fun and queues one increment once after the first
\* render and once after each render whose key differs from the key of the
\* render before; a render with the same key schedules no call, and no
\* other step calls fun or queues an increment.
C17_OneDispatchPerChange ==
    [][ hook = "useIO" =>
            /\ IORender =>
                    /\ effectPending' <=> condition' # condition
                    /\ Dispatched' = Dispatched
            /\ (\E r \in BOOLEAN : useIO_effect(r)) =>
                    /\ Dispatched' = Dispatched + 1
                    /\ queue' = Append(queue, Update("inc", Null, "io"))
            /\ ~effectPending =>
                    /\ Dispatched' = Dispatched
                    /\ Count("inc")' <= Count("inc") ]_vars

\* the key changed once: fun was called after the first render and after
\* the render with the new key, and renders with that key followed
C17_Witness ==
    /\ hook = "useIO"
    /\ phase = "mounted"
    /\ Dispatched = 2
    /\ forKey = {0, 1}
    /\ condition = 1
    /\ ~effectPending
    /\ queue = << >>
    /\ batch = 0

\* C19: the counter of useIO is null or an integer >= 0 in every state,
\* teardown included, also between the queued updates while the host
\* applies them; a decrement is applied only to a counter that is >= 1.
C19_CounterRange ==
    hook = "useIO" =>
        \A k \in 0 .. Len(queue) :
            LET v == ApplyQueue(SubSeq(queue, 1, k), state)
            IN  /\ v = Null \/ v.n >= 0
                /\ (k < Len(queue) /\ queue[k + 1].kind = "dec")
                        => (v # Null /\ v.n >= 1)

\* after teardown: the decrement of the operation that settled late was
\* dropped and the counter stays where the last render left it
C19_Witness ==
    /\ hook = "useIO"
    /\ phase = "unmounted"
    /\ state # Null
    /\ ApplyQueue(queue, state).n >= 1
    /\ \A i \in OpIds : ops[i] \in {"idle", "resolved", "rejected"}

\* C14: k functions handed to set or update of one link with no render in
\* between are applied in the order of the calls, each to the result of
\* the one before: the render leaves the cell with fn_k(...fn_1(v)...),
\* v being the value before the calls.  Result is the value of a function
\* that returns one (an update function that returns nothing is C5's).
Returns(u) ==
    \/ u.kind = "fn"
    \/ u.kind = "update" /\ u.v.ret # "undefined"

Result(u, x) ==
    IF u.kind = "fn" THEN SetFn(u.v.name, x)
    ELSE IF u.v.ret = "fresh" THEN Obj(Fresh(x.c))
    ELSE IF u.v.mutates THEN Obj(Succ(x.c))
    ELSE x

RECURSIVE Composed(_, _)
Composed(q, v) ==
    IF q = << >> THEN v
    ELSE Result(q[Len(q)], Composed(SubSeq(q, 1, Len(q) - 1), v))

C14_FunctionalUpdatesCompose ==
    [][ (LinkRender /\ \A j \in 1 .. Len(queue) : Returns(queue[j]))
            => state' = Composed(queue, state) ]_vars

\* a render applied two or more calls, the last one a function
C14_Witness ==
    /\ IsLink
    /\ phase = "mounted"
    /\ queue = << >>
    /\ batch >= 2
    /\ Returns(last)

\* C18: a function handed to set or update of a link of useSafeLink after
\* teardown is never called.
C18_NoComputeAfterTeardown ==
    Safe => ~lateCall

\* the decrement function of useIO was handed to set after teardown
C18_Witness ==
    /\ hook = "useIO"
    /\ phase = "unmounted"
    /\ queue = << >>
    /\ \E i \in OpIds : ops[i] = "rejected"
    /\ \A i \in OpIds : ops[i] # "pending"
    /\ ToNumber(state) > Dispatched - Settled
    /\ ~lateCall

\* C20: while the component is mounted, after every sequence of set and
\* update calls made on both, the link of useSafeLink and the link of
\* useLink that started from the same value hold the same value and have
\* the same updates waiting.
C20_SafeEqualsPlainWhileMounted ==
    (Twin /\ phase = "mounted") => (state = plainState /\ queue = plainQueue)

\* two calls, the last one an update, were applied to both links
C20_Witness ==
    /\ Twin
    /\ phase = "mounted"
    /\ cleanup
    /\ queue = << >>
    /\ batch >= 2
    /\ last.kind = "update"
    /\ state = plainState

\* after teardown the two differ: the guard dropped a call the link of
\* useLink handed to the host
C20_Teardown ==
    /\ Twin
    /\ phase = "unmounted"
    /\ queue # plainQueue

NonePending == \A i \in OpIds : ops[i] # "pending"
NoneThrew == \A i \in OpIds : ops[i] # "threw"

\* C11: if the component stays mounted, the dependency key eventually stops
\* changing and every dispatched operation eventually settles, resolved,
\* rejected or failed before it returned a promise, then useIO eventually
\* returns true and keeps returning true.
C11_ReadinessLiveness ==
    ( /\ hook = "useIO"
      /\ [](phase = "mounted")
      /\ \E k \in Keys : <>[](condition = k)
      /\ <>[]NonePending )
        => <>[](isReady = TRUE)

\* the same for the functions that always return their promise
C11_ReadinessLivenessOfPromises ==
    ( /\ hook = "useIO"
      /\ [](phase = "mounted")
      /\ []NoneThrew )
        => <>[](isReady = TRUE)

StorageEffect == useLocalStorage_effect

\* C13: when the store holds text that cannot be decoded under the key at
\* mount, the effect of useLocalStorage raises no error and leaves the
\* values of the links as they are.
C13_MalformedDataNotFatal ==
    [][(StorageEffect /\ store = Garbage) =>
           (~raised' /\ queue' = queue)]_vars

\* the values of the collection that JSON can spell out: numbers and null
Representable(x) == \A n \in Names : x[n].t \in {"number", "null"}

\* the second component has run its effect and rendered what it loaded
Loaded ==
    /\ hook = "useLocalStorage"
    /\ instance = 2
    /\ ~raised
    /\ ~effectPending
    /\ queue = << >>

====
